---- MODULE Spec2Model ----
(***************************************************************************)
(* Model of src/game.cpp: a turn-based roguelike on a 20x10 grid.          *)
(*                                                                         *)
(* A cell is a pair <<x, y>>.  The Grid `map` of the program is an array   *)
(* of '#' and '.'; here it is the set of cells that hold '.', every other  *)
(* cell of the MAP_W x MAP_H rectangle holds '#'.                          *)
(***************************************************************************)
EXTENDS Integers, Sequences, FiniteSets, TLC

MAP_W == 20
MAP_H == 10

playerMaxHP == 20
playerAttack == 4
KillScore == 10
HpCap == 999
HealMin == 6
HealMax == 10

(* Bound of the exploration: the turns played in one run.                  *)
MaxTurns == 3

(* Bound on the obstacle lists passed to bfs_next_step on its own.         *)
MaxObstacles == 2

(* Bound on the enemies and potions regenerate_map places, taken alone.    *)
MaxPlaced == 6

EASY == 0
NORMAL == 1
HARD == 2

diffConfigs ==
    << [enemyMin |-> 2, enemyMax |-> 4, enemyHpMin |-> 3, enemyHpMax |-> 5,
        enemyAtkMin |-> 1, enemyAtkMax |-> 2, potionMin |-> 5, potionMax |-> 7],
       [enemyMin |-> 3, enemyMax |-> 6, enemyHpMin |-> 4, enemyHpMax |-> 8,
        enemyAtkMin |-> 2, enemyAtkMax |-> 3, potionMin |-> 3, potionMax |-> 5],
       [enemyMin |-> 5, enemyMax |-> 8, enemyHpMin |-> 6, enemyHpMax |-> 12,
        enemyAtkMin |-> 3, enemyAtkMax |-> 5, potionMin |-> 1, potionMax |-> 3] >>

(* diffConfigs[(int)diff]: the array is 0-based in the program.            *)
Cfg(d) == diffConfigs[d + 1]

Abs(n) == IF n < 0 THEN -n ELSE n
Min2(a, b) == IF a < b THEN a ELSE b

InBounds(x, y) == x >= 0 /\ x < MAP_W /\ y >= 0 /\ y < MAP_H

(***************************************************************************)
(* Map helpers.                                                            *)
(***************************************************************************)
centerX(r) == r.x + (r.w \div 2)
centerY(r) == r.y + (r.h \div 2)

(* intersects that lets two rooms share their last column or row.          *)
intersects_inner(a, r) ==
    ~(a.x + a.w - 1 <= r.x \/ r.x + r.w - 1 <= a.x
      \/ a.y + a.h - 1 <= r.y \/ r.y + r.h - 1 <= a.y)

intersects(a, r) ==
    ~(a.x + a.w <= r.x \/ r.x + r.w <= a.x \/ a.y + a.h <= r.y \/ r.y + r.h <= a.y)

create_empty_map == {}

carve_room(m, r) ==
    m \cup {c \in (r.x .. r.x + r.w - 1) \X (r.y .. r.y + r.h - 1) : InBounds(c[1], c[2])}

carve_h(m, x1, x2, y) ==
    LET lo == Min2(x1, x2)
        hi == IF x2 < x1 THEN x1 ELSE x2
    IN  m \cup {c \in (lo .. hi) \X {y} : InBounds(c[1], c[2])}

carve_v(m, y1, y2, x) ==
    LET lo == Min2(y1, y2)
        hi == IF y2 < y1 THEN y1 ELSE y2
    IN  m \cup {c \in {x} \X (lo .. hi) : InBounds(c[1], c[2])}

(***************************************************************************)
(* bfs_next_step.  The search keeps the program's FIFO queue, its visited  *)
(* set and its parent table, and scans the neighbours in the order of      *)
(* `dirs`.                                                                 *)
(***************************************************************************)
dirs == << <<1, 0>>, <<-1, 0>>, <<0, 1>>, <<0, -1>> >>

(* blocked that treats the target cell as blocked like any occupied one.  *)
blocked_with_target(m, x, y, tx, ty, occupied) ==
    IF ~InBounds(x, y) THEN TRUE
    ELSE IF <<x, y>> \notin m THEN TRUE
    ELSE <<x, y>> \in occupied \/ (x = tx /\ y = ty)

blocked(m, x, y, tx, ty, occupied) ==
    IF ~InBounds(x, y) THEN TRUE
    ELSE IF <<x, y>> \notin m THEN TRUE
    ELSE <<x, y>> \in occupied /\ ~(x = tx /\ y = ty)

RECURSIVE bfs_scan(_, _, _, _, _, _, _, _)
bfs_scan(m, tx, ty, occupied, cur, k, q, st) ==
    IF k > Len(dirs) THEN [q |-> q, vis |-> st.vis, parent |-> st.parent]
    ELSE
      LET nx == cur[1] + dirs[k][1]
          ny == cur[2] + dirs[k][2]
      IN  IF \/ ~InBounds(nx, ny)
             \/ <<nx, ny>> \in st.vis
             \/ blocked(m, nx, ny, tx, ty, occupied)
          THEN bfs_scan(m, tx, ty, occupied, cur, k + 1, q, st)
          ELSE bfs_scan(m, tx, ty, occupied, cur, k + 1, Append(q, <<nx, ny>>),
                        [vis |-> st.vis \cup {<<nx, ny>>},
                         parent |-> (<<nx, ny>> :> cur) @@ st.parent])

(* The while loop over the queue; st holds q, vis and parent.               *)
RECURSIVE bfs_loop(_, _, _, _, _)
bfs_loop(m, tx, ty, occupied, st) ==
    CASE st.q = <<>> -> [found |-> FALSE, parent |-> st.parent]
      [] st.q # <<>> /\ Head(st.q) = <<tx, ty>> -> [found |-> TRUE, parent |-> st.parent]
      [] OTHER -> bfs_loop(m, tx, ty, occupied,
                           bfs_scan(m, tx, ty, occupied, Head(st.q), 1, Tail(st.q), st))

(* bfs_backtrack that stops at the cell the target was reached from.       *)
bfs_backtrack_last(parent, cur, s) == parent[cur]

RECURSIVE bfs_backtrack(_, _, _)
bfs_backtrack(parent, cur, s) ==
    IF parent[cur] = s THEN cur ELSE bfs_backtrack(parent, parent[cur], s)

(* bfs_greedy that tries the vertical step first on a tie.                 *)
bfs_greedy_vertical_ties(m, sx, sy, tx, ty, occupied) ==
    LET dx == IF tx > sx THEN 1 ELSE IF tx < sx THEN -1 ELSE 0
        dy == IF ty > sy THEN 1 ELSE IF ty < sy THEN -1 ELSE 0
    IN  IF Abs(tx - sx) > Abs(ty - sy)
        THEN IF ~blocked(m, sx + dx, sy, tx, ty, occupied) THEN <<sx + dx, sy>>
             ELSE IF ~blocked(m, sx, sy + dy, tx, ty, occupied) THEN <<sx, sy + dy>>
             ELSE <<sx, sy>>
        ELSE IF ~blocked(m, sx, sy + dy, tx, ty, occupied) THEN <<sx, sy + dy>>
             ELSE IF ~blocked(m, sx + dx, sy, tx, ty, occupied) THEN <<sx + dx, sy>>
             ELSE <<sx, sy>>

bfs_greedy(m, sx, sy, tx, ty, occupied) ==
    LET dx == IF tx > sx THEN 1 ELSE IF tx < sx THEN -1 ELSE 0
        dy == IF ty > sy THEN 1 ELSE IF ty < sy THEN -1 ELSE 0
    IN  IF Abs(tx - sx) >= Abs(ty - sy)
        THEN IF ~blocked(m, sx + dx, sy, tx, ty, occupied) THEN <<sx + dx, sy>>
             ELSE IF ~blocked(m, sx, sy + dy, tx, ty, occupied) THEN <<sx, sy + dy>>
             ELSE <<sx, sy>>
        ELSE IF ~blocked(m, sx, sy + dy, tx, ty, occupied) THEN <<sx, sy + dy>>
             ELSE IF ~blocked(m, sx + dx, sy, tx, ty, occupied) THEN <<sx + dx, sy>>
             ELSE <<sx, sy>>

bfs_next_step(m, sx, sy, tx, ty, occupied) ==
    IF sx = tx /\ sy = ty THEN <<sx, sy>>
    ELSE
      LET r == bfs_loop(m, tx, ty, occupied,
                        [q |-> << <<sx, sy>> >>, vis |-> {<<sx, sy>>}, parent |-> <<>>])
      IN  IF ~r.found THEN bfs_greedy(m, sx, sy, tx, ty, occupied)
          ELSE bfs_backtrack(r.parent, <<tx, ty>>, <<sx, sy>>)


(***************************************************************************)
(* High score IO.  The file is <<>> when absent and <<h>> when it holds h. *)
(***************************************************************************)
load_high_score(f) == IF f = <<>> THEN 0 ELSE f[1]

(* opened: whether the ofstream could be opened for writing.               *)
save_high_score(f, h, opened) == IF ~opened THEN f ELSE <<h>>

(***************************************************************************)
(* Map generation outcomes.  A layout is the list of rooms accepted by     *)
(* generate_map_basic together with the coin drawn for each corridor       *)
(* (coins[i] joins rooms[i] to rooms[i+1]).                                *)
(***************************************************************************)
RECURSIVE carve_layout(_, _, _, _)
carve_layout(m, rooms, coins, i) ==
    IF i > Len(rooms) THEN m
    ELSE
      LET r == rooms[i]
          m1 == carve_room(m, r)
          m2 == IF i = 1 THEN m1
                ELSE LET px == centerX(rooms[i - 1])
                         py == centerY(rooms[i - 1])
                         cx == centerX(r)
                         cy == centerY(r)
                     IN  IF coins[i - 1] = 0
                         THEN carve_v(carve_h(m1, px, cx, py), py, cy, cx)
                         ELSE carve_h(carve_v(m1, py, cy, px), px, cx, cy)
      IN  carve_layout(m2, rooms, coins, i + 1)

generate_map_basic(rooms, coins) ==
    LET m == carve_layout(create_empty_map, rooms, coins, 1)
    IN  IF m # {} THEN m ELSE (1 .. MAP_W - 2) \X (1 .. MAP_H - 2)

Rect(x, y, w, h) == [x |-> x, y |-> y, w |-> w, h |-> h]

(* What generate_map_basic accepts: 3..6 rooms of sampled size and place,  *)
(* no two of them intersecting.                                            *)
AcceptedRooms(rooms) ==
    /\ Len(rooms) \in 3 .. 6
    /\ \A i \in 1 .. Len(rooms) :
          /\ rooms[i].w \in 3 .. 8
          /\ rooms[i].h \in 3 .. 5
          /\ rooms[i].x \in 1 .. MAP_W - rooms[i].w - 1
          /\ rooms[i].y \in 1 .. MAP_H - rooms[i].h - 1
    /\ \A i, j \in 1 .. Len(rooms) : i < j => ~intersects(rooms[j], rooms[i])

Layouts ==
    << [rooms |-> << Rect(1, 1, 5, 3), Rect(8, 1, 4, 3), Rect(14, 5, 4, 3) >>,
        coins |-> << 0, 1 >>],
       [rooms |-> << Rect(2, 2, 3, 5), Rect(6, 1, 8, 3), Rect(15, 5, 3, 4), Rect(7, 5, 4, 3) >>,
        coins |-> << 1, 0, 0 >>] >>

(***************************************************************************)
(* Entity placement outcomes of regenerate_map: the cells drawn for the    *)
(* enemies and the potions (in draw order) and the hit points drawn for    *)
(* the enemies.                                                            *)
(***************************************************************************)
Placements ==
    { [diff |-> EASY, layout |-> 1,
       ecells |-> << <<4, 1>>, <<2, 1>> >>,
       ehps |-> { <<3, 5>>, <<5, 4>> },
       icells |-> << <<3, 3>>, <<1, 3>>, <<5, 2>>, <<10, 2>>, <<16, 6>> >>],
      [diff |-> NORMAL, layout |-> 1,
       ecells |-> << <<4, 2>>, <<4, 1>>, <<4, 3>>, <<5, 2>> >>,
       ehps |-> { <<4, 4, 8, 6>> },
       icells |-> << <<2, 2>>, <<9, 2>>, <<15, 6>> >>],
      [diff |-> HARD, layout |-> 2,
       ecells |-> << <<3, 3>>, <<2, 4>>, <<4, 4>>, <<3, 6>>, <<10, 2>> >>,
       ehps |-> { <<6, 12, 7, 9, 10>> },
       icells |-> << <<3, 5>> >>] }

Distinct(cells) == \A i, j \in 1 .. Len(cells) : i # j => cells[i] # cells[j]

(* regenerate_map rejects a drawn cell that is the player's, an enemy's    *)
(* or (for a potion) a potion's; every draw is a '.' cell.                 *)
AcceptedPlacement(p, m, px, py) ==
    LET cfg == Cfg(p.diff)
    IN  /\ Len(p.ecells) \in cfg.enemyMin .. cfg.enemyMax
        /\ Len(p.icells) \in cfg.potionMin .. cfg.potionMax
        /\ Distinct(p.ecells \o p.icells)
        /\ \A i \in 1 .. Len(p.ecells) : p.ecells[i] \in m /\ p.ecells[i] # <<px, py>>
        /\ \A i \in 1 .. Len(p.icells) : p.icells[i] \in m /\ p.icells[i] # <<px, py>>
        /\ \A h \in p.ehps :
              /\ Len(h) = Len(p.ecells)
              /\ \A i \in 1 .. Len(h) : h[i] \in cfg.enemyHpMin .. cfg.enemyHpMax


(***************************************************************************)
(* State of main().                                                        *)
(*   pc        where the run is: "input" (loop head), "enemies" (the enemy *)
(*             turn of the current iteration is about to run), or how the  *)
(*             loop was left: "dead", "quit", "eof"                        *)
(*   enemies   vector<Enemy>: records [x, y, hp, alive]                    *)
(*   items     vector<Item>: cells                                         *)
(*   hsFile    highscore.txt                                               *)
(*   ch        the last character read ("x": none of w a s d q)            *)
(*   msg       what the last player action or loop exit printed            *)
(*   occupied  the cells of the alive enemies when the last enemy turn     *)
(*             planned its moves, in array order                           *)
(*   nextPos   the intents planned in the last enemy turn                  *)
(*   attacks   the enemies that printed "An enemy attacks you" in the last *)
(*             enemy turn; bumps: those that printed "An enemy hits you"   *)
(*   phases    the number of enemy turns run so far in this run            *)
(*   rooms     vector<Rect> rooms                                          *)
(*   gen       the counts generate_map_basic and regenerate_map drew:      *)
(*             roomCount, ecount, pcount                                   *)
(*   pf        the arguments and the result of a call of bfs_next_step     *)
(*             on the grid `map`                                           *)
(***************************************************************************)
VARIABLES map, diff, playerX, playerY, playerHP, enemies, items, score, turns,
          highScore, hsFile, pc, ch, msg, occupied, nextPos, attacks, bumps, phases,
          rooms, gen, pf

vars == << map, diff, playerX, playerY, playerHP, enemies, items, score, turns,
           highScore, hsFile, pc, ch, msg, occupied, nextPos, attacks, bumps, phases,
           rooms, gen, pf >>

session == << map, diff, playerX, playerY, playerHP, enemies, items, score, turns >>

(* What the main loop never writes.                                        *)
setup == << rooms, gen, pf >>

Enemy(c, hp) == [x |-> c[1], y |-> c[2], hp |-> hp, alive |-> TRUE]

(* The session regenerate_map builds from the layout and the placement it *)
(* drew: the player stands at the centre of the first room.                *)
regenerate_map(p, hps) ==
    LET lay == Layouts[p.layout]
    IN  [map |-> generate_map_basic(lay.rooms, lay.coins),
         playerX |-> centerX(lay.rooms[1]),
         playerY |-> centerY(lay.rooms[1]),
         enemies |-> [i \in 1 .. Len(p.ecells) |-> Enemy(p.ecells[i], hps[i])],
         items |-> p.icells,
         score |-> 0,
         rooms |-> lay.rooms,
         gen |-> [roomCount |-> Len(lay.rooms), ecount |-> Len(p.ecells),
                  pcount |-> Len(p.icells)]]

(* The outcomes of generation and placement the exploration starts from:  *)
(* the sessions regenerate_map returns, with the difficulty chosen.        *)
Sessions ==
    LET draws == UNION {{[p |-> p, hps |-> h] : h \in p.ehps} : p \in Placements}
        built == {[diff |-> d.p.diff, p |-> d.p, g |-> regenerate_map(d.p, d.hps)] : d \in draws}
    IN  {s \in built :
            /\ AcceptedRooms(Layouts[s.p.layout].rooms)
            /\ AcceptedPlacement(s.p, s.g.map, s.g.playerX, s.g.playerY)}

Init ==
    \E s \in Sessions :
      /\ map = s.g.map
      /\ diff = s.diff
      /\ playerX = s.g.playerX
      /\ playerY = s.g.playerY
      /\ enemies = s.g.enemies
      /\ items = s.g.items
      /\ score = s.g.score
      /\ rooms = s.g.rooms
      /\ gen = s.g.gen
      /\ pf = <<>>
      /\ playerHP = playerMaxHP
      /\ turns = 0
      /\ hsFile = <<>>
      /\ highScore = load_high_score(<<>>)
      /\ ch = ""
      /\ msg = ""
      /\ occupied = <<>>
      /\ nextPos = <<>>
      /\ attacks = {}
      /\ bumps = {}
      /\ phases = 0
      /\ pc = "input"

(* The program is started again after a run has ended: main() from its     *)
(* first line, with the high score file the earlier runs left.             *)
Restart ==
    /\ pc \in {"dead", "quit", "eof"}
    /\ \E s \in Sessions :
         /\ map' = s.g.map
         /\ diff' = s.diff
         /\ playerX' = s.g.playerX
         /\ playerY' = s.g.playerY
         /\ enemies' = s.g.enemies
         /\ items' = s.g.items
         /\ score' = s.g.score
         /\ rooms' = s.g.rooms
         /\ gen' = s.g.gen
    /\ playerHP' = playerMaxHP
    /\ turns' = 0
    /\ highScore' = load_high_score(hsFile)
    /\ ch' = ""
    /\ msg' = ""
    /\ occupied' = <<>>
    /\ nextPos' = <<>>
    /\ attacks' = {}
    /\ bumps' = {}
    /\ phases' = 0
    /\ pc' = "input"
    /\ UNCHANGED << hsFile, pf >>

(* enemy_index_at that finds no enemy.                                     *)
enemy_index_at_none(es, x, y) == -1

enemy_index_at(es, x, y) ==
    LET hit == {i \in 1 .. Len(es) : es[i].alive /\ es[i].x = x /\ es[i].y = y}
    IN  IF hit = {} THEN -1 ELSE CHOOSE i \in hit : \A j \in hit : i <= j

item_index_at(its, x, y) ==
    LET hit == {i \in 1 .. Len(its) : its[i] = <<x, y>>}
    IN  IF hit = {} THEN -1 ELSE CHOOSE i \in hit : \A j \in hit : i <= j

(* items.erase(items.begin() + itidx), itidx counted from 1 here           *)
erase(its, k) == [i \in 1 .. Len(its) - 1 |-> IF i < k THEN its[i] ELSE its[i + 1]]

(* heal_to without the cap at the maximum.                                 *)
heal_uncapped(hp, heal) == hp + heal

heal_to(hp, heal) == Min2(playerMaxHP, hp + heal)

(***************************************************************************)
(* The loop head: the death check, then the read of a character.           *)
(***************************************************************************)
(* is_dead with a strict comparison.                                       *)
is_dead_strict(hp) == hp < 0

is_dead(hp) == hp <= 0

(* new_high that saves whatever the score is.                              *)
new_high_always(sc, high) == TRUE

new_high(sc, high) == sc > high

Death ==
    /\ pc = "input"
    /\ is_dead(playerHP)
    /\ IF new_high(score, highScore)
       THEN \E opened \in BOOLEAN :
              /\ hsFile' = save_high_score(hsFile, score, opened)
              /\ msg' = IF opened THEN "new high score" ELSE "could not write"
       ELSE /\ hsFile' = hsFile
            /\ msg' = "high score"
    /\ pc' = "dead"
    /\ UNCHANGED << session, highScore, ch, occupied, nextPos, attacks, bumps, phases,
                 setup >>

InputEOF ==
    /\ pc = "input"
    /\ ~is_dead(playerHP)
    /\ pc' = "eof"
    /\ msg' = ""
    /\ UNCHANGED << session, highScore, hsFile, ch, occupied, nextPos, attacks, bumps, phases,
                 setup >>

Quit ==
    /\ pc = "input"
    /\ ~is_dead(playerHP)
    /\ ch' = "q"
    /\ IF new_high(score, highScore)
       THEN \E opened \in BOOLEAN :
              /\ hsFile' = save_high_score(hsFile, score, opened)
              /\ msg' = IF opened THEN "new high score" ELSE "could not write"
       ELSE /\ hsFile' = hsFile
            /\ msg' = "quitting"
    /\ pc' = "quit"
    /\ UNCHANGED << session, highScore, occupied, nextPos, attacks, bumps, phases,
                 setup >>

UnknownInput ==
    /\ pc = "input"
    /\ ~is_dead(playerHP)
    /\ ch' = "x"
    /\ msg' = "unknown input"
    /\ UNCHANGED << session, highScore, hsFile, pc, occupied, nextPos, attacks, bumps, phases,
                 setup >>

(***************************************************************************)
(* A direction key: the player's action of the turn.                       *)
(***************************************************************************)
Keys == {"w", "a", "s", "d"}

DestX(k, px) == IF k = "a" THEN px - 1 ELSE IF k = "d" THEN px + 1 ELSE px
DestY(k, py) == IF k = "w" THEN py - 1 ELSE IF k = "s" THEN py + 1 ELSE py

(* is_wall that takes every cell for floor.                                *)
is_wall_never(m, x, y) == FALSE

is_wall(m, x, y) == <<x, y>> \notin m

(* attack_enemy that lets an enemy with exactly 0 hit points live.         *)
attack_enemy_strict(e) ==
    [e EXCEPT !.hp = e.hp - playerAttack, !.alive = ~(e.hp - playerAttack < 0)]

attack_enemy(e) ==
    [e EXCEPT !.hp = e.hp - playerAttack, !.alive = ~(e.hp - playerAttack <= 0)]

PlayerAction(k) ==
    /\ pc = "input"
    /\ ~is_dead(playerHP)
    /\ turns < MaxTurns
    /\ ch' = k
    /\ LET nx == DestX(k, playerX)
           ny == DestY(k, playerY)
           eidx == enemy_index_at(enemies, nx, ny)
           itidx == item_index_at(items, nx, ny)
       IN  IF ~InBounds(nx, ny)
           THEN /\ msg' = "out of bounds"
                /\ UNCHANGED << session, pc >>
           ELSE
             /\ IF is_wall(map, nx, ny)
                THEN /\ msg' = "bumped into a wall"
                     /\ UNCHANGED << playerX, playerY, playerHP, enemies, items, score >>
                ELSE IF eidx # -1
                THEN /\ enemies' = [enemies EXCEPT ![eidx] = attack_enemy(enemies[eidx])]
                     /\ IF ~enemies'[eidx].alive
                        THEN /\ msg' = "enemy defeated"
                             /\ score' = score + KillScore
                             /\ playerX' = nx
                             /\ playerY' = ny
                        ELSE /\ msg' = "enemy hp left"
                             /\ UNCHANGED << score, playerX, playerY >>
                     /\ UNCHANGED << playerHP, items >>
                ELSE /\ IF itidx # -1
                        THEN \E heal \in HealMin .. HealMax :
                               /\ playerHP' = heal_to(playerHP, heal)
                               /\ items' = erase(items, itidx)
                               /\ msg' = "picked up a potion"
                        ELSE /\ msg' = ""
                             /\ UNCHANGED << playerHP, items >>
                     /\ playerX' = nx
                     /\ playerY' = ny
                     /\ UNCHANGED << enemies, score >>
             /\ turns' = turns + 1
             /\ pc' = "enemies"
             /\ UNCHANGED << map, diff >>
    /\ UNCHANGED << highScore, hsFile, occupied, nextPos, attacks, bumps, phases,
                 setup >>

(***************************************************************************)
(* The enemy turn: plan every intent on the positions before any move,     *)
(* resolve the moves in array order, re-scan for enemies on the player's   *)
(* tile, cap the hit points.                                               *)
(***************************************************************************)
occ_of(es, i) ==
    {<<es[j].x, es[j].y>> : j \in {n \in 1 .. Len(es) : n # i /\ es[n].alive}}

(* The positions occupied when the moves are planned.                      *)
RECURSIVE start_positions(_)
start_positions(es) ==
    IF es = <<>> THEN <<>>
    ELSE (IF Head(es).alive THEN << <<Head(es).x, Head(es).y>> >> ELSE <<>>)
         \o start_positions(Tail(es))

(* plan_moves with every enemy planning after the enemies before it have   *)
(* taken their step.                                                       *)
RECURSIVE plan_after(_, _, _, _, _, _)
plan_after(m, es, px, py, i, np) ==
    IF i > Len(es) THEN np
    ELSE LET step == IF ~es[i].alive THEN <<-1, -1>>
                     ELSE bfs_next_step(m, es[i].x, es[i].y, px, py, occ_of(es, i))
             moved == IF es[i].alive /\ step # <<px, py>>
                      THEN [es EXCEPT ![i].x = step[1], ![i].y = step[2]]
                      ELSE es
         IN  plan_after(m, moved, px, py, i + 1, Append(np, step))

plan_moves_in_turn(m, es, px, py) == plan_after(m, es, px, py, 1, <<>>)

plan_moves(m, es, px, py) ==
    [i \in 1 .. Len(es) |->
        IF ~es[i].alive THEN <<-1, -1>>
        ELSE bfs_next_step(m, es[i].x, es[i].y, px, py, occ_of(es, i))]

(* move_blocked without the look-up in the reservation set.                *)
move_blocked_unreserved(m, intended, reserved) ==
    IF intended[1] < 0 THEN TRUE
    ELSE intended \notin m

move_blocked(m, intended, reserved) ==
    IF intended[1] < 0 THEN TRUE
    ELSE intended \notin m \/ intended \in reserved

(* resolve_one with the attacker stepping onto the player's tile.          *)
resolve_one_stepping_in(m, px, py, e, intended, reserved) ==
    IF intended[1] = px /\ intended[2] = py
    THEN [e |-> [e EXCEPT !.x = intended[1], !.y = intended[2]],
          cell |-> intended, attack |-> TRUE]
    ELSE IF move_blocked(m, intended, reserved)
    THEN [e |-> e, cell |-> <<e.x, e.y>>, attack |-> FALSE]
    ELSE [e |-> [e EXCEPT !.x = intended[1], !.y = intended[2]],
          cell |-> intended, attack |-> FALSE]

(* resolve_one reserving the cell the enemy leaves, not the one it takes.  *)
resolve_one_reserves_origin(m, px, py, e, intended, reserved) ==
    IF intended[1] = px /\ intended[2] = py
    THEN [e |-> e, cell |-> <<e.x, e.y>>, attack |-> TRUE]
    ELSE IF move_blocked(m, intended, reserved)
    THEN [e |-> e, cell |-> <<e.x, e.y>>, attack |-> FALSE]
    ELSE [e |-> [e EXCEPT !.x = intended[1], !.y = intended[2]],
          cell |-> <<e.x, e.y>>, attack |-> FALSE]

(* One iteration of the resolve loop for the alive enemy e with intent     *)
(* `intended`: the enemy after it, the cell it reserves, whether it        *)
(* attacked.                                                               *)
resolve_one(m, px, py, e, intended, reserved) ==
    IF intended[1] = px /\ intended[2] = py
    THEN [e |-> e, cell |-> <<e.x, e.y>>, attack |-> TRUE]
    ELSE IF move_blocked(m, intended, reserved)
    THEN [e |-> e, cell |-> <<e.x, e.y>>, attack |-> FALSE]
    ELSE [e |-> [e EXCEPT !.x = intended[1], !.y = intended[2]],
          cell |-> intended, attack |-> FALSE]

RECURSIVE resolve_moves(_, _, _, _, _, _, _, _)
resolve_moves(m, px, py, np, es, i, reserved, att) ==
    IF i > Len(es) THEN [enemies |-> es, attacks |-> att]
    ELSE IF ~es[i].alive THEN resolve_moves(m, px, py, np, es, i + 1, reserved, att)
    ELSE LET r == resolve_one(m, px, py, es[i], np[i], reserved)
         IN  resolve_moves(m, px, py, np, [es EXCEPT ![i] = r.e], i + 1,
                           reserved \cup {r.cell},
                           IF r.attack THEN att \cup {i} ELSE att)

(* The enemies the re-scan after the moves finds on the player's tile.     *)
colocated(es, px, py) ==
    {i \in 1 .. Len(es) : es[i].alive /\ es[i].x = px /\ es[i].y = py}

RECURSIVE SumOver(_, _)
SumOver(f, S) ==
    IF S = {} THEN 0
    ELSE LET i == CHOOSE j \in S : TRUE IN f[i] + SumOver(f, S \ {i})

cap(hp) == IF hp > HpCap THEN HpCap ELSE hp

EnemyTurn ==
    /\ pc = "enemies"
    /\ \E np \in {plan_moves(map, enemies, playerX, playerY)} :
         \E r \in {resolve_moves(map, playerX, playerY, np, enemies, 1, {}, {})} :
           \E co \in {colocated(r.enemies, playerX, playerY)} :
             /\ occupied' = start_positions(enemies)
             /\ nextPos' = np
             /\ enemies' = r.enemies
             /\ attacks' = r.attacks
             /\ bumps' = co
             /\ \E edmg \in [r.attacks -> Cfg(diff).enemyAtkMin .. Cfg(diff).enemyAtkMax] :
                  \E bdmg \in [co -> Cfg(diff).enemyAtkMin .. Cfg(diff).enemyAtkMax] :
                    playerHP' = cap(playerHP - SumOver(edmg, r.attacks) - SumOver(bdmg, co))
    /\ phases' = phases + 1
    /\ pc' = "input"
    /\ UNCHANGED << map, diff, playerX, playerY, items, score, turns, highScore, hsFile,
                    ch, msg, setup >>

Next ==
    \/ Death
    \/ InputEOF
    \/ Quit
    \/ UnknownInput
    \/ \E k \in Keys : PlayerAction(k)
    \/ EnemyTurn

Spec == Init /\ [][Next]_vars

(* Runs one after another on the same high score file.                     *)
NextRuns == Next \/ Restart

SpecRuns == Init /\ [][NextRuns]_vars

(***************************************************************************)
(* bfs_next_step on its own: a grid, a start and a target on '.' cells,    *)
(* and a list of occupied cells that does not hold the start (the caller   *)
(* leaves the moving enemy out of it).                                     *)
(***************************************************************************)
(* main() before regenerate_map and the loop have run.                     *)
NotStarted ==
    /\ playerX = 1
    /\ playerY = 1
    /\ playerHP = playerMaxHP
    /\ enemies = <<>>
    /\ items = <<>>
    /\ score = 0
    /\ turns = 0
    /\ highScore = load_high_score(<<>>)
    /\ hsFile = <<>>
    /\ ch = ""
    /\ msg = ""
    /\ occupied = <<>>
    /\ nextPos = <<>>
    /\ attacks = {}
    /\ bumps = {}
    /\ phases = 0

(* The grids the calls are made on, the targets and the cells the          *)
(* occupied lists are drawn from: the two layouts and the open floor       *)
(* generate_map_basic falls back to.                                       *)
PathCases ==
    << [m |-> generate_map_basic(Layouts[1].rooms, Layouts[1].coins),
        targets |-> {<<3, 2>>, <<10, 2>>, <<16, 6>>},
        others |-> {<<6, 2>>, <<8, 2>>, <<4, 2>>, <<3, 2>>}],
       [m |-> generate_map_basic(Layouts[2].rooms, Layouts[2].coins),
        targets |-> {<<3, 4>>, <<9, 6>>},
        others |-> {<<5, 2>>, <<3, 3>>, <<16, 3>>, <<12, 7>>}],
       [m |-> generate_map_basic(<<>>, <<>>),
        targets |-> {<<9, 4>>, <<1, 1>>},
        others |-> {<<8, 4>>, <<1, 2>>, <<2, 1>>}] >>

OccupiedLists(cells) == {o \in SUBSET cells : Cardinality(o) <= MaxObstacles}

InitPath ==
    /\ NotStarted
    /\ diff = NORMAL
    /\ rooms = <<>>
    /\ gen = [roomCount |-> 0, ecount |-> 0, pcount |-> 0]
    /\ pc = "bfs"
    /\ \E k \in 1 .. Len(PathCases) :
         /\ map = PathCases[k].m
         /\ \E s \in PathCases[k].m, t \in PathCases[k].targets :
              \E occ \in OccupiedLists(PathCases[k].others \ {s}) :
                pf = [sx |-> s[1], sy |-> s[2], tx |-> t[1], ty |-> t[2],
                      occupied |-> occ, step |-> <<>>]

FindStep ==
    /\ pc = "bfs"
    /\ pf' = [pf EXCEPT !.step = bfs_next_step(map, pf.sx, pf.sy, pf.tx, pf.ty, pf.occupied)]
    /\ pc' = "stepped"
    /\ UNCHANGED << session, highScore, hsFile, ch, msg, occupied, nextPos, attacks, bumps,
                    phases, rooms, gen >>

NextPath == FindStep

SpecPath == InitPath /\ [][NextPath]_vars

(***************************************************************************)
(* generate_map_basic, one pass of its room loop at a time.  The loop      *)
(* index i is Len(rooms): a rejected candidate takes it back (i--) and an  *)
(* accepted one is pushed.                                                 *)
(***************************************************************************)
(* The widths, heights and origins the candidates are drawn from here.     *)
DrawW == {4, 8}
DrawH == {3}
DrawX == {1, 8, 9}
DrawY == {1, 6}

(* The candidates of the program: w in 3..8, h in 3..5, x and y so that    *)
(* the room keeps one cell from the edge.                                  *)
Candidates ==
    {r \in [x : 1 .. MAP_W, y : 1 .. MAP_H, w : 3 .. 8, h : 3 .. 5] :
        r.x <= MAP_W - r.w - 1 /\ r.y <= MAP_H - r.h - 1}

RoomDraws == {r \in Candidates : r.w \in DrawW /\ r.h \in DrawH /\ r.x \in DrawX /\ r.y \in DrawY}

InitGen ==
    /\ NotStarted
    /\ diff = NORMAL
    /\ map = create_empty_map
    /\ rooms = <<>>
    /\ \E n \in 3 .. 6 : gen = [roomCount |-> n, ecount |-> 0, pcount |-> 0]
    /\ pf = <<>>
    /\ pc = "rooms"

GenRoom ==
    /\ pc = "rooms"
    /\ Len(rooms) < gen.roomCount
    /\ \E r \in RoomDraws :
         IF \E i \in 1 .. Len(rooms) : intersects(r, rooms[i])
         THEN UNCHANGED << map, rooms >>
         ELSE /\ rooms' = Append(rooms, r)
              /\ IF rooms = <<>>
                 THEN map' = carve_layout(map, <<r>>, <<>>, 1)
                 ELSE \E coin \in {0, 1} :
                        map' = carve_layout(map, <<rooms[Len(rooms)], r>>, <<coin>>, 2)
    /\ UNCHANGED << diff, playerX, playerY, playerHP, enemies, items, score, turns,
                    highScore, hsFile, pc, ch, msg, occupied, nextPos, attacks, bumps,
                    phases, gen, pf >>

GenFinish ==
    /\ pc = "rooms"
    /\ Len(rooms) = gen.roomCount
    /\ map' = IF map # {} THEN map ELSE (1 .. MAP_W - 2) \X (1 .. MAP_H - 2)
    /\ pc' = "generated"
    /\ UNCHANGED << diff, playerX, playerY, playerHP, enemies, items, score, turns,
                    highScore, hsFile, ch, msg, occupied, nextPos, attacks, bumps,
                    phases, rooms, gen, pf >>

NextGen == GenRoom \/ GenFinish

SpecGen == InitGen /\ [][NextGen]_vars

(***************************************************************************)
(* regenerate_map after generate_map_basic has returned one of the         *)
(* layouts: the player, then the enemies, then the potions, one pass of a  *)
(* placement loop at a time.                                               *)
(***************************************************************************)
LayoutOf(rs) == CHOOSE k \in 1 .. Len(Layouts) : Layouts[k].rooms = rs

(* The '.' cells random_floor_tile is taken to return, for each layout:    *)
(* the player's cell and cells near and far from it.                       *)
TileDraws ==
    << {<<3, 2>>, <<4, 2>>, <<2, 2>>, <<3, 1>>, <<6, 2>>, <<10, 4>>, <<16, 6>>},
       {<<3, 4>>, <<3, 3>>, <<2, 4>>, <<5, 2>>, <<10, 2>>, <<12, 7>>, <<16, 7>>} >>

random_floor_tile(m, rs) ==
    IF m = {} THEN {<<1, 1>>} ELSE TileDraws[LayoutOf(rs)] \cap m

HpDraws(cfg) == {cfg.enemyHpMin, cfg.enemyHpMax}

EnemyCounts(cfg) == {n \in cfg.enemyMin .. cfg.enemyMax : n + cfg.potionMin <= MaxPlaced}

PotionCounts(cfg, ecount) == {n \in cfg.potionMin .. cfg.potionMax : ecount + n <= MaxPlaced}

enemy_clash(es, p) == \E i \in 1 .. Len(es) : es[i].x = p[1] /\ es[i].y = p[2]

(* item_clash that looks at the potions only.                              *)
item_clash_items_only(its, es, p) == \E i \in 1 .. Len(its) : its[i] = p

item_clash(its, es, p) ==
    \/ \E i \in 1 .. Len(its) : its[i] = p
    \/ \E i \in 1 .. Len(es) : es[i].x = p[1] /\ es[i].y = p[2]

InitPlace ==
    /\ NotStarted
    /\ diff \in {EASY, NORMAL, HARD}
    /\ \E k \in 1 .. Len(Layouts) :
         /\ map = generate_map_basic(Layouts[k].rooms, Layouts[k].coins)
         /\ rooms = Layouts[k].rooms
         /\ gen = [roomCount |-> Len(Layouts[k].rooms), ecount |-> 0, pcount |-> 0]
    /\ pf = <<>>
    /\ pc = "generated"

PlacePlayer ==
    /\ pc = "generated"
    /\ IF rooms # <<>>
       THEN playerX' = centerX(rooms[1]) /\ playerY' = centerY(rooms[1])
       ELSE \E p \in random_floor_tile(map, rooms) : playerX' = p[1] /\ playerY' = p[2]
    /\ enemies' = <<>>
    /\ \E n \in EnemyCounts(Cfg(diff)) : gen' = [gen EXCEPT !.ecount = n]
    /\ pc' = "place_enemies"
    /\ UNCHANGED << map, diff, playerHP, items, score, turns, highScore, hsFile, ch, msg,
                    occupied, nextPos, attacks, bumps, phases, rooms, pf >>

PlaceEnemy ==
    /\ pc = "place_enemies"
    /\ Len(enemies) < gen.ecount
    /\ \E p \in random_floor_tile(map, rooms) :
         IF (p[1] = playerX /\ p[2] = playerY) \/ enemy_clash(enemies, p)
         THEN UNCHANGED enemies
         ELSE \E hp \in HpDraws(Cfg(diff)) : enemies' = Append(enemies, Enemy(p, hp))
    /\ UNCHANGED << map, diff, playerX, playerY, playerHP, items, score, turns, highScore,
                    hsFile, pc, ch, msg, occupied, nextPos, attacks, bumps, phases, setup >>

CountPotions ==
    /\ pc = "place_enemies"
    /\ Len(enemies) = gen.ecount
    /\ items' = <<>>
    /\ \E n \in PotionCounts(Cfg(diff), gen.ecount) : gen' = [gen EXCEPT !.pcount = n]
    /\ pc' = "place_items"
    /\ UNCHANGED << map, diff, playerX, playerY, playerHP, enemies, score, turns, highScore,
                    hsFile, ch, msg, occupied, nextPos, attacks, bumps, phases, rooms, pf >>

PlaceItem ==
    /\ pc = "place_items"
    /\ Len(items) < gen.pcount
    /\ \E p \in random_floor_tile(map, rooms) :
         IF (p[1] = playerX /\ p[2] = playerY) \/ item_clash(items, enemies, p)
         THEN UNCHANGED items
         ELSE items' = Append(items, p)
    /\ UNCHANGED << map, diff, playerX, playerY, playerHP, enemies, score, turns, highScore,
                    hsFile, pc, ch, msg, occupied, nextPos, attacks, bumps, phases, setup >>

FinishPlacement ==
    /\ pc = "place_items"
    /\ Len(items) = gen.pcount
    /\ score' = 0
    /\ pc' = "placed"
    /\ UNCHANGED << map, diff, playerX, playerY, playerHP, enemies, items, turns, highScore,
                    hsFile, ch, msg, occupied, nextPos, attacks, bumps, phases, setup >>

NextPlace == PlacePlayer \/ PlaceEnemy \/ CountPotions \/ PlaceItem \/ FinishPlacement

SpecPlace == InitPlace /\ [][NextPlace]_vars


(***************************************************************************)
(* Properties.                                                             *)
(***************************************************************************)
Alive == {i \in 1 .. Len(enemies) : enemies[i].alive}

CellOf(e) == <<e.x, e.y>>

PlayerCell == <<playerX, playerY>>

Max2(a, b) == IF a < b THEN b ELSE a

(* C1: in every reachable state, initial placement included, no two live   *)
(* enemies stand on the same cell.                                         *)
C1_NoSharedCell ==
    \A i, j \in Alive : i # j => CellOf(enemies[i]) # CellOf(enemies[j])

(* An enemy turn has just ended in which two live enemies intended the     *)
(* same floor cell: the earlier one took it, the later one stayed put.     *)
C1_Witness ==
    /\ pc = "input"
    /\ nextPos # <<>>
    /\ \E i, j \in Alive :
          /\ i < j
          /\ nextPos[i] = nextPos[j]
          /\ nextPos[i] # PlayerCell
          /\ CellOf(enemies[i]) = nextPos[i]
          /\ CellOf(enemies[j]) # nextPos[j]

(* C2 as stated: every enemy that attacked because its intent was the      *)
(* player's cell is found again by the re-scan and hits a second time.     *)
C2_HitsTwice ==
    pc = "input" => attacks \subseteq bumps

(* C2 amended: an enemy whose intent is the player's cell rolls damage     *)
(* exactly once, in the resolve loop, and stays where it was; the re-scan  *)
(* finds no enemy on the player's tile and adds no damage.                 *)
C2_HitsOnce ==
    [][pc = "enemies" =>
         LET n == Cardinality(attacks')
             lost == playerHP - playerHP'
         IN  /\ attacks' = {i \in Alive : nextPos'[i] = PlayerCell}
             /\ \A i \in attacks' : CellOf(enemies'[i]) = CellOf(enemies[i])
             /\ bumps' = {}
             /\ lost >= n * Cfg(diff).enemyAtkMin
             /\ lost <= n * Cfg(diff).enemyAtkMax]_vars

(* An enemy turn has just ended in which some enemy attacked the player.   *)
C2_Witness ==
    /\ pc = "input"
    /\ attacks # {}
    /\ playerHP < playerMaxHP

(* C3: the player's hit points are never below 0.                          *)
C3_HPNeverNegative ==
    playerHP >= 0

(* C4: when the input ends while a move is awaited, a score above the      *)
(* stored best has been written to the high score file.                    *)
C4_EOFSavesHighScore ==
    (pc = "eof" /\ score > highScore) => hsFile = <<score>>


(* The step is a player action: a direction key k was read at the loop     *)
(* head and consumed a turn.                                               *)
TurnTaken == pc = "input" /\ pc' = "enemies" /\ ch' \in Keys

DestCell == <<DestX(ch', playerX), DestY(ch', playerY)>>

DestEnemy == enemy_index_at(enemies, DestCell[1], DestCell[2])

DestItem == item_index_at(items, DestCell[1], DestCell[2])

(* C5: a player action on a destination holding a live enemy takes exactly *)
(* the player's attack power from that enemy; at 0 or less the enemy is    *)
(* dead, the score grows by 10 and the player stands on the cell,          *)
(* otherwise the enemy lives and the player has not moved; no other enemy  *)
(* changes.                                                                *)
C5_Melee ==
    [][(TurnTaken /\ DestEnemy # -1) =>
         LET e == DestEnemy
         IN  /\ Len(enemies') = Len(enemies)
             /\ enemies'[e].hp = enemies[e].hp - playerAttack
             /\ CellOf(enemies'[e]) = CellOf(enemies[e])
             /\ IF enemies[e].hp - playerAttack <= 0
                THEN /\ ~enemies'[e].alive
                     /\ score' = score + 10
                     /\ <<playerX', playerY'>> = DestCell
                ELSE /\ enemies'[e].alive
                     /\ score' = score
                     /\ <<playerX', playerY'>> = PlayerCell
             /\ \A j \in 1 .. Len(enemies) : j # e => enemies'[j] = enemies[j]]_vars

(* The player has just killed an enemy, and another live enemy carries the *)
(* mark of an earlier attack that did not kill it.                         *)
C5_Witness ==
    /\ pc = "enemies"
    /\ msg = "enemy defeated"
    /\ \E i \in 1 .. Len(enemies) : ~enemies[i].alive /\ CellOf(enemies[i]) = PlayerCell
    /\ \E j \in Alive : enemies[j].hp < Cfg(diff).enemyHpMin

(* C6: the player's hit points never exceed the maximum; a move onto a     *)
(* potion sets them to min(max, HP + roll) for a roll in 6..10 and removes *)
(* exactly that potion; no other step raises them.                         *)
C6_HealCapped ==
    /\ [](playerHP <= playerMaxHP)
    /\ [][LET pickup == /\ TurnTaken
                        /\ DestCell \in map
                        /\ DestEnemy = -1
                        /\ DestItem # -1
          IN  /\ pickup =>
                   /\ \E roll \in 6 .. 10 :
                        playerHP' = Min2(playerMaxHP, playerHP + roll)
                   /\ Len(items') = Len(items) - 1
                   /\ {items'[i] : i \in 1 .. Len(items')}
                        = {items[i] : i \in 1 .. Len(items)} \ {DestCell}
              /\ playerHP' > playerHP => pickup]_vars

(* The player, hurt in the enemy turn before, has just picked up a potion  *)
(* whose roll was cut at the maximum.                                      *)
C6_Witness ==
    /\ pc = "enemies"
    /\ msg = "picked up a potion"
    /\ attacks # {}
    /\ playerHP = playerMaxHP

(* C7: a direction key with an in-bounds destination adds exactly 1 to the *)
(* turn counter and is followed by exactly one enemy turn before the next  *)
(* read; a bump into a wall leaves the player where it was.                *)
C7_TurnConsumed ==
    /\ [](pc = "enemies" => phases + 1 = turns)
    /\ [](pc # "enemies" => phases = turns)
    /\ [][(pc = "input" /\ pc' \in {"input", "enemies"} /\ ch' \in Keys
             /\ InBounds(DestCell[1], DestCell[2])) =>
            /\ turns' = turns + 1
            /\ pc' = "enemies"
            /\ phases' = phases
            /\ DestCell \notin map => <<playerX', playerY'>> = PlayerCell]_vars
    /\ [][pc = "enemies" =>
            /\ pc' = "input"
            /\ phases' = phases + 1
            /\ turns' = turns]_vars

(* The enemy turn that follows a bump into a wall has run.                 *)
C7_Witness ==
    /\ pc = "input"
    /\ msg = "bumped into a wall"
    /\ turns >= 1
    /\ phases = turns

(* C8: the destination of a direction key is never outside the grid, so    *)
(* the rejection of an out-of-bounds move is never exercised.              *)
C8_DestinationInBounds ==
    /\ \A k \in Keys : InBounds(DestX(k, playerX), DestY(k, playerY))
    /\ msg # "out of bounds"

(* C9: once the hit points are 0 or less at the loop head the run ends in  *)
(* death before another character is applied, with the session unchanged;  *)
(* no step leaves a run that has ended by death, quit or end of input.     *)
C9_TerminalAbsorbing ==
    /\ [][(pc = "input" /\ playerHP <= 0) =>
            (pc' = "dead" /\ session' = session /\ ch' = ch)]_vars
    /\ [][pc \notin {"dead", "quit", "eof"}]_vars

(* The run has ended in death with exactly 0 hit points.                   *)
C9_Witness ==
    /\ pc = "dead"
    /\ playerHP = 0
    /\ turns >= 1

(* The step ends a run by death or by quit.                                *)
RunEnds == pc = "input" /\ pc' \in {"dead", "quit"}

(* C10 as stated: after every run ended by death or quit the stored high   *)
(* score is max(stored before or 0, final score).                          *)
C10_StoredIsMax ==
    [][RunEnds => load_high_score(hsFile') = Max2(load_high_score(hsFile), score)]_vars

(* C10 amended: the stored high score never decreases; after a run ended   *)
(* by death or quit it is max(stored before or 0, final score) unless the  *)
(* file could not be opened for writing, and then the file is as before;   *)
(* a score not above the stored best leaves the file as it was.            *)
C10_StoredIsMaxIfWritten ==
    [][/\ load_high_score(hsFile') >= load_high_score(hsFile)
       /\ RunEnds =>
            /\ IF msg' = "could not write"
               THEN hsFile' = hsFile
               ELSE load_high_score(hsFile') = Max2(load_high_score(hsFile), score)
            /\ score <= load_high_score(hsFile) => hsFile' = hsFile]_vars

(* A run has ended by death or quit with a score below the best stored by  *)
(* an earlier run, and the file still holds that best.                     *)
C10_Witness ==
    /\ pc \in {"dead", "quit"}
    /\ hsFile # <<>>
    /\ score < load_high_score(hsFile)
    /\ highScore = load_high_score(hsFile)

(***************************************************************************)
(* The snapshot the moves are planned on.                                  *)
(***************************************************************************)
(* The cell the alive enemy i stood on when the last enemy turn planned.   *)
StartCell(i) == occupied[Cardinality({j \in Alive : j <= i})]

(* An enemy turn has just run and nothing has changed the enemies since.   *)
AfterEnemyTurn == pc = "input" /\ phases >= 1 /\ Len(nextPos) = Len(enemies)

Moved(i) == StartCell(i) # CellOf(enemies[i])

(* C11: after an enemy turn, the intent of every alive enemy is the step   *)
(* bfs_next_step returns from the cell the enemy had before any enemy      *)
(* moved, to the cell the player has after its action, with exactly the    *)
(* cells the other alive enemies had before any move as obstacles; a dead  *)
(* enemy is no obstacle and has no intent.                                 *)
C11_PlansOnSnapshot ==
    AfterEnemyTurn =>
      /\ Len(occupied) = Cardinality(Alive)
      /\ \A i \in 1 .. Len(enemies) :
            IF i \in Alive
            THEN nextPos[i] =
                   bfs_next_step(map, StartCell(i)[1], StartCell(i)[2], playerX, playerY,
                                 {StartCell(j) : j \in Alive \ {i}})
            ELSE nextPos[i] = <<-1, -1>>

(* An enemy moved, and a later enemy's intent is not the step it would     *)
(* have planned had it seen the earlier enemies where they moved to.       *)
C11_Witness ==
    /\ AfterEnemyTurn
    /\ \E i, j \in Alive :
         /\ i < j
         /\ Moved(i)
         /\ nextPos[j] # bfs_next_step(map, StartCell(j)[1], StartCell(j)[2],
                                       playerX, playerY,
                                       {IF k < j THEN CellOf(enemies[k]) ELSE StartCell(k) :
                                           k \in Alive \ {j}})

(***************************************************************************)
(* Contested cells.                                                        *)
(***************************************************************************)
(* The alive enemies whose intent in the turn being taken is the cell c.   *)
Contenders(c) == {i \in Alive : nextPos'[i] = c}

Lowest(S) == CHOOSE i \in S : \A j \in S : i <= j

(* C12: in an enemy turn, of the alive enemies that intend the same floor  *)
(* cell other than the player's, the one with the lowest index moves there *)
(* and every later one stays on its cell; and an enemy whose intended cell *)
(* no earlier enemy has ended its move on always ends on that cell.        *)
C12_LowestIndexWins ==
    [][pc = "enemies" =>
         \A i \in Alive :
            LET c == nextPos'[i]
            IN  c # PlayerCell =>
                  /\ c \in map
                  /\ IF i = Lowest(Contenders(c))
                     THEN CellOf(enemies'[i]) = c
                     ELSE CellOf(enemies'[i]) = CellOf(enemies[i])
                  /\ (\A j \in Alive : j < i => CellOf(enemies'[j]) # c)
                        => CellOf(enemies'[i]) = c]_vars

(* Two enemies intended the same free cell: the earlier one has moved      *)
(* there from its start cell, the later one is still on its start cell.    *)
C12_Witness ==
    /\ AfterEnemyTurn
    /\ \E i, j \in Alive :
         /\ i < j
         /\ nextPos[i] = nextPos[j]
         /\ nextPos[i] # PlayerCell
         /\ Moved(i)
         /\ CellOf(enemies[i]) = nextPos[i]
         /\ ~Moved(j)
         /\ StartCell(j) # nextPos[j]

(***************************************************************************)
(* The step bfs_next_step returns.                                         *)
(***************************************************************************)
PfStart == <<pf.sx, pf.sy>>

PfTarget == <<pf.tx, pf.ty>>

Manhattan(a, b) == Abs(a[1] - b[1]) + Abs(a[2] - b[2])

Around(c) == {<<c[1] + 1, c[2]>>, <<c[1] - 1, c[2]>>, <<c[1], c[2] + 1>>, <<c[1], c[2] - 1>>}

(* The '.' cells of the grid that no occupied cell other than the target   *)
(* takes.                                                                  *)
FreeCells ==
    {c \in map : InBounds(c[1], c[2]) /\ (c \notin pf.occupied \/ c = PfTarget)}

(* The number of steps of a shortest 4-connected path through `free` from  *)
(* the cells of `frontier` (d steps away from where the path began) to     *)
(* `goal`; -1 when there is none.                                          *)
RECURSIVE Flood(_, _, _, _, _)
Flood(free, frontier, seen, goal, d) ==
    IF goal \in frontier THEN d
    ELSE LET next == {c \in UNION {Around(f) : f \in frontier} : c \in free /\ c \notin seen}
         IN  IF next = {} THEN -1
             ELSE Flood(free, next, seen \cup next, goal, d + 1)

Distance(from, to) == Flood(FreeCells, {from}, {from}, to, 0)

OpenGrid == map = (1 .. MAP_W - 2) \X (1 .. MAP_H - 2) /\ pf.occupied = {}

(* C13: when a 4-connected path of free '.' cells leads from the start to  *)
(* the target, the step returned is a free cell next to the start from     *)
(* which the target is exactly one step nearer than from the start; on the *)
(* open grid without obstacles it is strictly nearer in Manhattan          *)
(* distance; and for a start that is the target it is the start.           *)
C13_ShortestStep ==
    pc = "stepped" =>
      \E d \in {Distance(PfStart, PfTarget)} :
        d >= 0 =>
          IF PfStart = PfTarget THEN pf.step = PfStart
          ELSE /\ pf.step \in Around(PfStart)
               /\ pf.step \in FreeCells
               /\ Distance(pf.step, PfTarget) = d - 1
               /\ OpenGrid => Manhattan(pf.step, PfTarget) < Manhattan(PfStart, PfTarget)

(* A path exists only around an occupied cell: the step returned leads     *)
(* away from the target in Manhattan distance.                             *)
C13_Witness ==
    /\ pc = "stepped"
    /\ Distance(PfStart, PfTarget) > Manhattan(PfStart, PfTarget)
    /\ pf.occupied # {}
    /\ Manhattan(pf.step, PfTarget) > Manhattan(PfStart, PfTarget)

Sign(n) == IF n > 0 THEN 1 ELSE IF n < 0 THEN -1 ELSE 0

HStep == <<pf.sx + Sign(pf.tx - pf.sx), pf.sy>>

VStep == <<pf.sx, pf.sy + Sign(pf.ty - pf.sy)>>

FirstStep == IF Abs(pf.tx - pf.sx) >= Abs(pf.ty - pf.sy) THEN HStep ELSE VStep

SecondStep == IF Abs(pf.tx - pf.sx) >= Abs(pf.ty - pf.sy) THEN VStep ELSE HStep

CellsOf(r) == (r.x .. r.x + r.w - 1) \X (r.y .. r.y + r.h - 1)

(* C16: every accepted room lies inside the grid with at least one cell    *)
(* of '#' between it and each edge, and no two accepted rooms have a cell  *)
(* in common.                                                              *)
C16_RoomsApart ==
    /\ \A i \in 1 .. Len(rooms) :
          \A c \in CellsOf(rooms[i]) :
             c[1] >= 1 /\ c[1] <= MAP_W - 2 /\ c[2] >= 1 /\ c[2] <= MAP_H - 2
    /\ \A i, j \in 1 .. Len(rooms) :
          i # j => CellsOf(rooms[i]) \cap CellsOf(rooms[j]) = {}

(* Generation has ended with two rooms that touch along an edge.           *)
C16_Witness ==
    /\ pc = "generated"
    /\ \E i, j \in 1 .. Len(rooms) :
          /\ rooms[i].x + rooms[i].w = rooms[j].x
          /\ rooms[i].y = rooms[j].y
          /\ CellsOf(rooms[i]) \cap CellsOf(rooms[j]) = {}

(* C19: while fewer rooms than the sampled count are accepted, some        *)
(* candidate of the program intersects none of the accepted rooms.         *)
C19_CandidateExists ==
    (pc = "rooms" /\ Len(rooms) < gen.roomCount) =>
       \E r \in Candidates : \A i \in 1 .. Len(rooms) : ~intersects(r, rooms[i])

(***************************************************************************)
(* The session regenerate_map hands to the main loop.                      *)
(***************************************************************************)
EnemyCells == {CellOf(enemies[i]) : i \in 1 .. Len(enemies)}

ItemCells == {items[i] : i \in 1 .. Len(items)}

(* C15: when regenerate_map returns, the player's cell, the enemies' cells *)
(* and the potions' cells are pairwise different '.' cells, and the player *)
(* stands at the centre of the first accepted room.                        *)
C15_PlacedApart ==
    pc = "placed" =>
      /\ Cardinality(EnemyCells) = Len(enemies)
      /\ Cardinality(ItemCells) = Len(items)
      /\ EnemyCells \cap ItemCells = {}
      /\ PlayerCell \notin EnemyCells \cup ItemCells
      /\ {PlayerCell} \cup EnemyCells \cup ItemCells \subseteq map
      /\ playerX = rooms[1].x + (rooms[1].w \div 2)
      /\ playerY = rooms[1].y + (rooms[1].h \div 2)
      /\ PlayerCell \in CellsOf(rooms[1])

(* regenerate_map has returned with an enemy next to the player and a      *)
(* potion next to that enemy.                                              *)
C15_Witness ==
    /\ pc = "placed"
    /\ \E e \in EnemyCells :
         /\ e \in Around(PlayerCell)
         /\ \E i \in ItemCells : i \in Around(e) \/ i \in Around(PlayerCell)

(***************************************************************************)
(* Where the player, the enemies and the potions stand during a run.       *)
(***************************************************************************)
(* C17: the player and every alive enemy stand on a '.' cell inside the    *)
(* grid, in every state of a run.                                          *)
C17_OnFloor ==
    /\ InBounds(playerX, playerY)
    /\ PlayerCell \in map
    /\ \A i \in Alive : InBounds(enemies[i].x, enemies[i].y) /\ CellOf(enemies[i]) \in map

(* The player has left the cell it started on, and an enemy has just moved *)
(* to a cell that has a '#' cell next to it.                               *)
C17_Witness ==
    /\ AfterEnemyTurn
    /\ PlayerCell # <<centerX(rooms[1]), centerY(rooms[1])>>
    /\ \E i \in Alive : Moved(i) /\ Around(CellOf(enemies[i])) \ map # {}

(* C18: after every player action no potion lies on the player's cell.    *)
C18_NoPotionUnderPlayer ==
    pc = "enemies" => PlayerCell \notin ItemCells

(* C20: no alive enemy ever stands on the player's cell, and in an enemy   *)
(* turn no enemy rolls damage twice: none both attacks and is found by     *)
(* the re-scan, and the player loses at most one maximal roll for each     *)
(* enemy that rolled.                                                      *)
C20_NeverOnPlayer ==
    /\ [](\A i \in Alive : CellOf(enemies[i]) # PlayerCell)
    /\ [][pc = "enemies" =>
            /\ \A i \in Alive : ~(i \in attacks' /\ i \in bumps')
            /\ attacks' \cup bumps' \subseteq Alive
            /\ playerHP - playerHP'
                 <= Cardinality(attacks' \cup bumps') * Cfg(diff).enemyAtkMax]_vars

(* Two enemies next to the player have each attacked it once.              *)
C20_Witness ==
    /\ AfterEnemyTurn
    /\ Cardinality(attacks) >= 2
    /\ \A i \in attacks : CellOf(enemies[i]) \in Around(PlayerCell)
    /\ bumps = {}

(***************************************************************************)
(* The enemies next to the player.                                         *)
(***************************************************************************)
(* The alive enemies on a cell 4-adjacent to the player's.                 *)
NextToPlayer == {i \in Alive : Manhattan(CellOf(enemies[i]), PlayerCell) = 1}

(* C21: in an enemy turn, every alive enemy that is 4-adjacent to the cell *)
(* the player has after its action intends the player's cell, whatever     *)
(* cells the other enemies are on; it attacks in that turn, is not hit a   *)
(* second time by the re-scan, and stays on its cell; the attackers are    *)
(* exactly these enemies and the player loses one roll of the difficulty's *)
(* attack range for each.                                                  *)
C21_AdjacentAttacks ==
    [][pc = "enemies" =>
         /\ \A i \in NextToPlayer :
               /\ nextPos'[i] = PlayerCell
               /\ i \in attacks'
               /\ i \notin bumps'
               /\ CellOf(enemies'[i]) = CellOf(enemies[i])
         /\ attacks' = NextToPlayer
         /\ playerHP - playerHP' >= Cardinality(NextToPlayer) * Cfg(diff).enemyAtkMin
         /\ playerHP - playerHP' <= Cardinality(NextToPlayer) * Cfg(diff).enemyAtkMax]_vars

(* An enemy next to the player, with another enemy right behind it, has    *)
(* attacked and not moved, while an enemy above the player attacked too.   *)
C21_Witness ==
    /\ AfterEnemyTurn
    /\ \E i \in attacks :
         /\ i \in NextToPlayer
         /\ ~Moved(i)
         /\ \E j \in Alive : Manhattan(CellOf(enemies[j]), CellOf(enemies[i])) = 1
    /\ \E k \in attacks : CellOf(enemies[k]) = <<playerX, playerY - 1>>

====
